---------------------------- MODULE Spec2Model ----------------------------
(***************************************************************************)
(* Model of gallery_dl/extractor/bunkr.py: the shared domain pool          *)
(* (DOMAINS, CF_DOMAINS), the request router BunkrAlbumExtractor.request   *)
(* at statement granularity, the album / media pipelines built on it, and  *)
(* decrypt_url on byte strings.                                            *)
(*                                                                         *)
(* URLs are strings; a root is scheme + "://" + hostname, a URL is a root  *)
(* followed by a path, and a path starts with "/".                         *)
(***************************************************************************)
EXTENDS Naturals, Integers, Sequences, FiniteSets, TLC

\* ------------------------------------------------------------------ bounds
\* number of entries of the source's DOMAINS list the model keeps
NumDomains == 2
\* largest number of item blocks on an album page
MaxItems == 2
\* largest hour a token is made in; it is decrypted in hours 0..MaxHour+1
MaxHour == 11

\* ------------------------------------------------------------ module data
\* bunkr.py:32-47, in source order
AllDomains ==
    << "bunkr.ac", "bunkr.ci", "bunkr.cr", "bunkr.fi", "bunkr.ph",
       "bunkr.pk", "bunkr.ps", "bunkr.si", "bunkr.sk", "bunkr.ws",
       "bunkr.black", "bunkr.red", "bunkr.media", "bunkr.site" >>

\* the window of AllDomains the model starts with: it begins at "bunkr.si",
\* the hostname of the class attribute root
InitialDomains == SubSeq(AllDomains, 8, 7 + NumDomains)

\* bunkr.py:48-58 (one representative besides the ones the model uses)
LEGACY_DOMAINS ==
    { "bunkr.ax", "bunkr.cat", "bunkr.ru", "bunkrr.ru", "bunkr.su",
      "bunkrr.su", "bunkr.la", "bunkr.is", "bunkr.to" }

\* bunkr.py:85, class attribute BunkrAlbumExtractor.root
ClassRoot == "https://bunkr.si"
\* bunkr.py:89, class attribute BunkrAlbumExtractor.referer
referer == "https://get.bunkrr.su"

Range(s) == { s[i] : i \in DOMAIN s }

\* "https://" + domain  (bunkr.py:95, 142)
HttpsRoot(domain) == "https://" \o domain

\* hostnames and roots that occur in the model
PoolHosts == Range(InitialDomains)
\* a file host outside the pool, target of cross-domain redirects
CdnHost == "cdn.example.org"
\* a legacy hostname, usable as an explicit target only
LegacyHost == "bunkr.ax"
AllHosts == PoolHosts \cup { "get.bunkrr.su", CdnHost, LegacyHost }
AllRoots == { HttpsRoot(h) : h \in AllHosts }
\* paths the hosts serve or redirect to
AllPaths == { "/a/ID", "/api/vs" }
AllUrls == { r \o p : r \in AllRoots, p \in AllPaths }

\* _split(url): (url[:pos], url[pos:]) with pos the first "/" at index >= 8,
\* i.e. the "/" that ends the authority            (bunkr.py:238-240)
_split(url) ==
    CHOOSE rp \in AllRoots \X AllPaths : rp[1] \o rp[2] = url

\* root.rpartition("/")[2]: what follows the last "/" of a root (bunkr.py:132)
HostOf(root) == CHOOSE h \in AllHosts : \E s \in {"https://", "http://"} : s \o h = root

\* url[0] == "/"                                    (bunkr.py:114, 170)
IsPathOnly(url) == url \in AllPaths

\* list.remove(x): drops the first occurrence        (bunkr.py:132)
ListRemove(list, x) ==
    LET i == CHOOSE k \in 1..Len(list) :
                 list[k] = x /\ \A j \in 1..(k-1) : list[j] # x
    IN  SubSeq(list, 1, i-1) \o SubSeq(list, i+1, Len(list))


\* ------------------------------------------------------------- exceptions
NoExc == [type |-> "none", status |-> 0, msg |-> ""]
\* exception.HttpError carrying the response status
HttpError(status) == [type |-> "HttpError", status |-> status, msg |-> ""]
\* exception.StopExtraction(message)
StopExtraction(msg) == [type |-> "StopExtraction", status |-> 0, msg |-> msg]
\* raised by random.choice on an empty list, and by "..."[0]
IndexError == [type |-> "IndexError", status |-> 0, msg |-> ""]
\* raised by response.json() on a body that is not JSON, and by
\* base64.b64decode on a str with a character outside ASCII
ValueError == [type |-> "ValueError", status |-> 0, msg |-> ""]
\* the message of bunkr.py:137-139
AllChallenged == "All Bunkr domains require solving a CF challenge"
NoResponse == [status |-> 0, root |-> ""]

\* ------------------------------------------------------------- decrypt_url
\* Bytes are 0..255, a byte string is a sequence of bytes, and a text (a
\* str, the base64 token included) is the sequence of its code points.

\* a ^ b on two bytes                                        (bunkr.py:73)
RECURSIVE xor(_, _)
xor(a, b) ==
    IF a = 0 /\ b = 0 THEN 0
    ELSE (((a % 2) + (b % 2)) % 2) + 2 * xor(a \div 2, b \div 2)

\* the base64 alphabet of base64.b64decode, as code points: "A".."Z",
\* "a".."z", "0".."9", "+", "/"; and the padding "="        (bunkr.py:64)
B64Alphabet ==
    [ i \in 1..64 |-> IF i <= 26 THEN 64 + i
                      ELSE IF i <= 52 THEN 70 + i
                      ELSE IF i <= 62 THEN i - 5
                      ELSE IF i = 63 THEN 43 ELSE 47 ]
B64Pad == 61
\* a character of the alphabet, and the six bits it stands for
IsB64Char(c) == \E i \in 1..Len(B64Alphabet) : B64Alphabet[i] = c
B64Value(c) == (CHOOSE i \in 1..Len(B64Alphabet) : B64Alphabet[i] = c) - 1

\* raised by binascii.a2b_base64 on data whose data characters do not end a
\* group of four and that has no completed padding
BinasciiError == [type |-> "binascii.Error", status |-> 0, msg |-> ""]
\* raised by bytes.decode on bytes that are not UTF-8
UnicodeDecodeError == [type |-> "UnicodeDecodeError", status |-> 0, msg |-> ""]

\* binascii.a2b_base64 without validation, on the bytes of the token, from
\* byte i on: quad_pos data
\* characters of the current group of four are read, leftchar holds their
\* bits not yet written, pads counts the padding since the last data
\* character, out holds the bytes written. A character outside the alphabet
\* is discarded, padding after fewer than two data characters is skipped, and
\* the scan stops at a completed padding                    (bunkr.py:64)
RECURSIVE a2b_base64(_, _, _, _, _, _)
a2b_base64(token, i, quad_pos, leftchar, pads, out) ==
    IF i > Len(token)
    THEN IF quad_pos = 0
         THEN [exc |-> NoExc, bytes |-> out]
         ELSE [exc |-> BinasciiError, bytes |-> << >>]
    ELSE IF token[i] = B64Pad
    THEN IF quad_pos >= 2 /\ quad_pos + pads + 1 >= 4
         THEN [exc |-> NoExc, bytes |-> out]
         ELSE a2b_base64(token, i + 1, quad_pos, leftchar,
                         IF quad_pos >= 2 THEN pads + 1 ELSE pads, out)
    ELSE IF ~IsB64Char(token[i])
    THEN a2b_base64(token, i + 1, quad_pos, leftchar, pads, out)
    ELSE LET v == B64Value(token[i])
         IN  IF quad_pos = 0
             THEN a2b_base64(token, i + 1, 1, v, 0, out)
             ELSE IF quad_pos = 1
             THEN a2b_base64(token, i + 1, 2, v % 16, 0,
                             Append(out, (leftchar * 4) + (v \div 16)))
             ELSE IF quad_pos = 2
             THEN a2b_base64(token, i + 1, 3, v % 4, 0,
                             Append(out, (leftchar * 16) + (v \div 4)))
             ELSE a2b_base64(token, i + 1, 0, 0, 0,
                             Append(out, (leftchar * 64) + v))

\* str.encode("ascii") as base64.b64decode applies it to a str argument: a
\* code point outside ASCII makes it raise ValueError("string argument should
\* contain only ASCII characters")                           (bunkr.py:64)
IsAscii(text) == \A i \in 1..Len(text) : text[i] < 128

\* base64.b64decode(encrypted_b64): the str is encoded to ASCII bytes, then
\* decoded by binascii.a2b_base64; the bytes, or the exception (bunkr.py:64)
b64decode(token) ==
    IF ~IsAscii(token) THEN [exc |-> ValueError, bytes |-> << >>]
    ELSE a2b_base64(token, 1, 0, 0, 0, << >>)

\* str(n) of a number n >= 0, as code points                 (bunkr.py:67)
RECURSIVE str(_)
str(n) == IF n < 10 THEN << 48 + n >> ELSE str(n \div 10) \o << 48 + (n % 10) >>

\* the text "SECRET_KEY_"                                    (bunkr.py:67)
SecretPrefix == << 83, 69, 67, 82, 69, 84, 95, 75, 69, 89, 95 >>

\* a key whose hour comes before the fixed text
key_str_hour_first(timestamp) == str(timestamp \div 3600) \o SecretPrefix

\* f"SECRET_KEY_{math.floor(timestamp / 3600)}"               (bunkr.py:67)
key_str(timestamp) == SecretPrefix \o str(timestamp \div 3600)

\* str.encode(): the UTF-8 bytes of a text                   (bunkr.py:68)
RECURSIVE encode(_)
encode(text) ==
    IF text = << >> THEN << >>
    ELSE LET cp == text[1]
             head == IF cp < 128 THEN << cp >>
                     ELSE IF cp < 2048
                     THEN << 192 + (cp \div 64), 128 + (cp % 64) >>
                     ELSE IF cp < 65536
                     THEN << 224 + (cp \div 4096), 128 + ((cp \div 64) % 64),
                             128 + (cp % 64) >>
                     ELSE << 240 + (cp \div 262144), 128 + ((cp \div 4096) % 64),
                             128 + ((cp \div 64) % 64), 128 + (cp % 64) >>
         IN  head \o encode(Tail(text))

\* a key that stops at its last byte instead of repeating
key_byte_no_wrap(key_bytes, i) ==
    key_bytes[(IF i < Len(key_bytes) THEN i ELSE Len(key_bytes) - 1) + 1]

\* key_bytes[i % len(key_bytes)], i counted from 0           (bunkr.py:73)
key_byte(key_bytes, i) == key_bytes[(i % Len(key_bytes)) + 1]

\* bytes([decoded_bytes[i] ^ key_bytes[i % len(key_bytes)] ...])
\*                                                        (bunkr.py:71-76)
decrypted(decoded_bytes, key_bytes) ==
    [ j \in 1..Len(decoded_bytes) |->
        xor(decoded_bytes[j], key_byte(key_bytes, j - 1)) ]

IsContinuation(byte) == byte >= 128 /\ byte <= 191
\* length of the well-formed UTF-8 sequence bytes begins with, 0 if none
Utf8Len(bytes) ==
    IF bytes = << >> THEN 0
    ELSE LET b1 == bytes[1]
             n == Len(bytes)
         IN  IF b1 < 128 THEN 1
             ELSE IF /\ b1 >= 194 /\ b1 <= 223 /\ n >= 2
                     /\ IsContinuation(bytes[2])
             THEN 2
             ELSE IF /\ b1 >= 224 /\ b1 <= 239 /\ n >= 3
                     /\ IsContinuation(bytes[2]) /\ IsContinuation(bytes[3])
                     /\ (b1 = 224 => bytes[2] >= 160)
                     /\ (b1 = 237 => bytes[2] <= 159)
             THEN 3
             ELSE IF /\ b1 >= 240 /\ b1 <= 244 /\ n >= 4
                     /\ IsContinuation(bytes[2]) /\ IsContinuation(bytes[3])
                     /\ IsContinuation(bytes[4])
                     /\ (b1 = 240 => bytes[2] >= 144)
                     /\ (b1 = 244 => bytes[2] <= 143)
             THEN 4
             ELSE 0

\* the code point of a well-formed sequence of k bytes
Utf8CodePoint(bytes, k) ==
    IF k = 1 THEN bytes[1]
    ELSE IF k = 2 THEN (bytes[1] - 192) * 64 + (bytes[2] - 128)
    ELSE IF k = 3 THEN (bytes[1] - 224) * 4096 + (bytes[2] - 128) * 64
                       + (bytes[3] - 128)
    ELSE (bytes[1] - 240) * 262144 + (bytes[2] - 128) * 4096
         + (bytes[3] - 128) * 64 + (bytes[4] - 128)

RECURSIVE IsUtf8(_)
IsUtf8(bytes) ==
    \/ bytes = << >>
    \/ /\ Utf8Len(bytes) > 0
       /\ IsUtf8(SubSeq(bytes, Utf8Len(bytes) + 1, Len(bytes)))

RECURSIVE CodePoints(_)
CodePoints(bytes) ==
    IF bytes = << >> THEN << >>
    ELSE << Utf8CodePoint(bytes, Utf8Len(bytes)) >>
         \o CodePoints(SubSeq(bytes, Utf8Len(bytes) + 1, Len(bytes)))

\* what a call leaves: the text it returns, or the exception it raises
Returned(text) == [exc |-> NoExc, text |-> text]
Raised(e) == [exc |-> e, text |-> << >>]

\* bytes.decode(): strict UTF-8                              (bunkr.py:78)
decode(bytes) ==
    IF IsUtf8(bytes) THEN Returned(CodePoints(bytes))
    ELSE Raised(UnicodeDecodeError)

\* decrypt_url(encrypted_b64, timestamp)                  (bunkr.py:62-78)
decrypt_url(encrypted_b64, timestamp) ==
    LET decoded_bytes == b64decode(encrypted_b64)
    IN  IF decoded_bytes.exc # NoExc THEN Raised(decoded_bytes.exc)
        ELSE decode(decrypted(decoded_bytes.bytes,
                              encode(key_str(timestamp))))

\* ------------------------------------------------------------------ state
Threads == {1, 2}

VARIABLES
    DOMAINS,      \* module-level list of active hostnames       (bunkr.py:32)
    CF_DOMAINS,   \* module-level set of challenged roots        (bunkr.py:59)
    root,         \* root[t]: self.root of thread t's extractor  (bunkr.py:85,95,142)
    offset,       \* offset[t]: self.offset                      (bunkr.py:96,99)
    op,           \* op[t]: the top-level operation t is running
    pc,           \* pc[t]: position of t inside request()
    url,          \* url[t]: the local variable url of request()
    response,     \* response[t]: what request() returned
    exc,          \* exc[t]: what request() raised
    startEmpty,   \* history: DOMAINS was empty when the call began
    sentCF,       \* history: the call sent a request to a root in CF_DOMAINS
    hops,         \* history: the call received a redirect
    pathHop,      \* history: the last answer was a path-only redirect
    handling,     \* history: the answer (403, absolute redirect) being handled
    drawn,        \* drawn[t]: the index random.choice has drawn (random.py)
    fatal,        \* history: request() raised the all-domains-challenged error
    ppc,          \* ppc[t]: position of t inside fetch_album / _extract_files
    items,        \* items[t]: the item blocks of the album page (bunkr.py:154)
    idx,          \* idx[t]: number of item blocks the iterator has passed
    attempted,    \* history: indices of the items _extract_file was called for
    yielded,      \* indices of the items whose descriptor was produced
    meta,         \* meta[t]: the metadata dictionary fetch_album returned
    pexc,         \* pexc[t]: the exception that left the pipeline
    dec           \* the inputs and the result of one decrypt_url call

poolVars == << DOMAINS, CF_DOMAINS >>
instVars == << root, offset >>
callVars == << pc, url, response, exc, startEmpty, sentCF, hops, pathHop, handling, drawn >>
pipeVars == << ppc, items, idx, attempted, yielded, meta, pexc >>
vars == << DOMAINS, CF_DOMAINS, root, offset, op, pc, url, response, exc,
           startEmpty, sentCF, hops, pathHop, handling, drawn, fatal,
           ppc, items, idx, attempted, yielded, meta, pexc, dec >>

\* statuses the remote hosts answer with
Statuses == { 200, 302, 403, 404 }
\* Location headers the remote hosts send: path-only or absolute
Locations == AllPaths \cup AllUrls
\* Location headers of hosts that redirect to the album page: path-only, or
\* on a domain of the pool or on the file host
AlbumLocations ==
    { "/a/ID" } \cup { HttpsRoot(h) \o "/a/ID" : h \in PoolHosts \cup { CdnHost } }
\* hostnames an extractor is constructed for (groups[0] or groups[1])
InstanceDomains == PoolHosts \cup { LegacyHost }

\* a router that hands every non-error response to its caller
IsFinalAnyResponse(status) == status < 400

\* response.status_code < 300                               (bunkr.py:109)
IsFinal(status) == status < 300

\* a handler that takes every error status for the challenge
IsChallengeAnyError(status) == status >= 400

\* exc.status != 403 is re-raised; 403 is the challenge      (bunkr.py:123)
IsChallenge(status) == status = 403

\* a path-only Location resolved against the root that sent it
rewriteAgainstRequested(selfRoot, requested, location) ==
    _split(requested)[1] \o location

\* "url = self.root + url" for a path-only Location         (bunkr.py:115)
rewrite(selfRoot, requested, location) == selfRoot \o location

\* a handler that never finds the list empty
IsEmptyNever(list) == FALSE

\* "not DOMAINS"                                             (bunkr.py:136)
IsEmpty(list) == list = << >>

\* an add that drops a root that is already there
SetToggle(set, x) == IF x \in set THEN set \ { x } ELSE set \cup { x }

\* an add that forgets the roots added before
SetReplace(set, x) == { x }

\* CF_DOMAINS.add(root)                                      (bunkr.py:128)
SetAdd(set, x) == set \cup { x }

\* the list random.choice draws from                        (bunkr.py:142)
Candidates(list) == list

\* Extractor.request raises HttpError for an error status, and returns the
\* response (redirects are not followed: allow_redirects=False) otherwise
RaisesHttpError(status) == status >= 400

\* history of an answer: the root its request was sent to, and whether it is
\* a 403 of a root that was in CF_DOMAINS already
NoAnswer == [root |-> "", remark |-> FALSE]
Answer(t, status) ==
    [root |-> _split(url[t])[1],
     remark |-> IsChallenge(status) /\ _split(url[t])[1] \in CF_DOMAINS]

\* the dictionary {}
EmptyDict == << >>

\* the texts a token is made of: "HELLO", the empty text, a file URL longer
\* than the key, and a path with a two-byte character where the key's hour is
HELLO == << 72, 69, 76, 76, 79 >>
Plaintexts ==
    { HELLO,
      << >>,
      << 104, 116, 116, 112, 115, 58, 47, 47, 99, 46, 100, 110, 47, 102, 46,
         109, 112, 52 >>,
      << 47, 97, 47, 97, 108, 98, 117, 109, 47, 99, 97, 233, 46, 109, 112,
         52 >> }

\* base64 of a byte string: what data["url"] holds       (bunkr.py:196-205)
RECURSIVE b64encode(_)
b64encode(bytes) ==
    IF bytes = << >> THEN << >>
    ELSE LET n == Len(bytes)
             b1 == bytes[1]
             b2 == IF n >= 2 THEN bytes[2] ELSE 0
             b3 == IF n >= 3 THEN bytes[3] ELSE 0
             c1 == B64Alphabet[(b1 \div 4) + 1]
             c2 == B64Alphabet[((b1 % 4) * 16) + (b2 \div 16) + 1]
             c3 == B64Alphabet[((b2 % 16) * 4) + (b3 \div 64) + 1]
             c4 == B64Alphabet[(b3 % 64) + 1]
         IN  IF n = 1 THEN << c1, c2, B64Pad, B64Pad >>
             ELSE IF n = 2 THEN << c1, c2, c3, B64Pad >>
             ELSE << c1, c2, c3, c4 >> \o b64encode(SubSeq(bytes, 4, n))

\* the token the resolution API answers with in hour h for a text: its bytes
\* XORed with the repeating key SECRET_KEY_<h>, in base64  (bunkr.py:196-205)
TokenKey(h) == SecretPrefix \o str(h)
Token(text, h) ==
    LET bytes == encode(text)
        key == TokenKey(h)
    IN  b64encode([ j \in 1..Len(bytes) |->
                      xor(bytes[j], key[((j - 1) % Len(key)) + 1]) ])

\* the timestamps decrypt_url is called with: three seconds of every hour
Timestamps == { (h * 3600) + s : h \in 0..(MaxHour + 1), s \in { 0, 1800, 3599 } }

NoToken == [pc |-> "idle", plain |-> << >>, hour |-> 0, encrypted_b64 |-> << >>,
            timestamp |-> 0, out |-> Returned(<< >>)]
\* a token made of a text in an hour, not yet decrypted
TokenOf(text, h) ==
    [pc |-> "token", plain |-> text, hour |-> h,
     encrypted_b64 |-> Token(text, h), timestamp |-> 0, out |-> Returned(<< >>)]

\* tokens not made by b64encode, as a server may send them: "QQ=Q",
\* "QUJD====", "QQ==X", "Q!Q==", and "QQ==" followed by U+00E9
RawTokens ==
    { << 81, 81, 61, 81 >>,
      << 81, 85, 74, 68, 61, 61, 61, 61 >>,
      << 81, 81, 61, 61, 88 >>,
      << 81, 33, 81, 61, 61 >>,
      << 81, 81, 61, 61, 233 >> }
RawOf(token) ==
    [pc |-> "raw", plain |-> << >>, hour |-> 0,
     encrypted_b64 |-> token, timestamp |-> 0, out |-> Returned(<< >>)]

InitExtractors ==
    /\ DOMAINS = InitialDomains
    /\ CF_DOMAINS = {}
    /\ root = [t \in Threads |-> ClassRoot]
    /\ offset = [t \in Threads |-> 0]
    /\ op = [t \in Threads |-> "none"]
    /\ pc = [t \in Threads |-> "idle"]
    /\ url = [t \in Threads |-> ""]
    /\ response = [t \in Threads |-> NoResponse]
    /\ exc = [t \in Threads |-> NoExc]
    /\ startEmpty = [t \in Threads |-> FALSE]
    /\ sentCF = [t \in Threads |-> FALSE]
    /\ hops = [t \in Threads |-> FALSE]
    /\ pathHop = [t \in Threads |-> FALSE]
    /\ handling = [t \in Threads |-> NoAnswer]
    /\ drawn = [t \in Threads |-> 0]
    /\ fatal = [t \in Threads |-> FALSE]
    /\ ppc = [t \in Threads |-> "none"]
    /\ items = [t \in Threads |-> << >>]
    /\ idx = [t \in Threads |-> 0]
    /\ attempted = [t \in Threads |-> << >>]
    /\ yielded = [t \in Threads |-> << >>]
    /\ meta = [t \in Threads |-> EmptyDict]
    /\ pexc = [t \in Threads |-> NoExc]

Init == InitExtractors /\ dec = NoToken

\* a token of the resolution API is at hand
InitDecode ==
    /\ InitExtractors
    /\ dec \in { TokenOf(text, h) : text \in Plaintexts, h \in 0..MaxHour }
               \cup { RawOf(token) : token \in RawTokens }

\* decrypt_url(data["url"], data["timestamp"]) on the token, with a timestamp
\* of the same or of another hour                       (bunkr.py:62-78, 205)
DecryptUrl ==
    /\ dec.pc \in { "token", "raw" }
    /\ \E timestamp \in Timestamps :
         dec' = [dec EXCEPT !.pc = IF dec.pc = "token" THEN "done"
                                                      ELSE "rawdone",
                            !.timestamp = timestamp,
                            !.out = decrypt_url(dec.encrypted_b64, timestamp)]
    /\ UNCHANGED << poolVars, instVars, op, callVars, fatal, pipeVars >>

\* ---------------------------------------------------------------- __init__
\* BunkrAlbumExtractor.__init__                             (bunkr.py:91-96)
NewInstance(t) ==
    /\ op[t] = "none"
    /\ \E domain \in InstanceDomains :
         root' = [root EXCEPT ![t] =
                     IF domain \notin LEGACY_DOMAINS
                     THEN HttpsRoot(domain) ELSE ClassRoot]
    /\ offset' = [offset EXCEPT ![t] = 0]
    /\ UNCHANGED << poolVars, op, callVars, fatal, pipeVars >>
    /\ UNCHANGED dec

\* BunkrAlbumExtractor.skip                                 (bunkr.py:98-100)
skip(t) ==
    /\ op[t] = "none"
    /\ \E num \in 0..MaxItems : offset' = [offset EXCEPT ![t] = num]
    /\ UNCHANGED << poolVars, root, op, callVars, fatal, pipeVars >>
    /\ UNCHANGED dec

\* ----------------------------------------------------------------- request
\* entry of request(url): bunkr.py:102-106
Enter(t, u) ==
    /\ pc' = [pc EXCEPT ![t] = "send"]
    /\ url' = [url EXCEPT ![t] = u]
    /\ response' = [response EXCEPT ![t] = NoResponse]
    /\ exc' = [exc EXCEPT ![t] = NoExc]
    /\ startEmpty' = [startEmpty EXCEPT ![t] = (DOMAINS = << >>)]
    /\ sentCF' = [sentCF EXCEPT ![t] = FALSE]
    /\ hops' = [hops EXCEPT ![t] = FALSE]
    /\ pathHop' = [pathHop EXCEPT ![t] = FALSE]
    /\ handling' = [handling EXCEPT ![t] = NoAnswer]
    /\ drawn' = [drawn EXCEPT ![t] = 0]

\* the caller has taken the result of request(): its locals die
Leave(t) ==
    /\ pc' = [pc EXCEPT ![t] = "idle"]
    /\ url' = [url EXCEPT ![t] = ""]
    /\ response' = [response EXCEPT ![t] = NoResponse]
    /\ exc' = [exc EXCEPT ![t] = NoExc]
    /\ startEmpty' = [startEmpty EXCEPT ![t] = FALSE]
    /\ sentCF' = [sentCF EXCEPT ![t] = FALSE]
    /\ hops' = [hops EXCEPT ![t] = FALSE]
    /\ pathHop' = [pathHop EXCEPT ![t] = FALSE]
    /\ handling' = [handling EXCEPT ![t] = NoAnswer]
    /\ drawn' = [drawn EXCEPT ![t] = 0]

\* leaving request() with an exception
Raise(t, e) ==
    /\ pc' = [pc EXCEPT ![t] = "raised"]
    /\ exc' = [exc EXCEPT ![t] = e]

\* a caller invokes request(url) directly
StartCall(t) ==
    /\ op[t] = "none"
    /\ op' = [op EXCEPT ![t] = "request"]
    /\ fatal' = [fatal EXCEPT ![t] = FALSE]
    /\ \E u \in AllUrls : Enter(t, u)
    /\ UNCHANGED << poolVars, instVars, pipeVars >>
    /\ UNCHANGED dec

\* fetch_album begins: request(self.root + "/a/" + album_id) (bunkr.py:148)
RequestAlbumPage(t) ==
    /\ op[t] = "none"
    /\ op' = [op EXCEPT ![t] = "request"]
    /\ fatal' = [fatal EXCEPT ![t] = FALSE]
    /\ Enter(t, root[t] \o "/a/ID")
    /\ UNCHANGED << poolVars, instVars, pipeVars >>
    /\ UNCHANGED dec

\* bunkr.py:108-116 and 122-124: one HTTP exchange and what follows from it
\* up to the next access of the shared pool
Exchange(t, locations) ==
    /\ pc[t] = "send"
    /\ sentCF' = [sentCF EXCEPT ![t] = @ \/ (_split(url[t])[1] \in CF_DOMAINS)]
    /\ \E status \in Statuses :
         IF RaisesHttpError(status)
         THEN /\ IF ~IsChallenge(status)
                 THEN /\ Raise(t, HttpError(status))
                      /\ handling' = handling
                 ELSE /\ pc' = [pc EXCEPT ![t] = "cf_add"]
                      /\ exc' = [exc EXCEPT ![t] = HttpError(status)]
                      /\ handling' = [handling EXCEPT ![t] = Answer(t, status)]
              /\ pathHop' = [pathHop EXCEPT ![t] = FALSE]
              /\ UNCHANGED << url, response, hops >>
         ELSE IF IsFinal(status)
         THEN /\ pc' = [pc EXCEPT ![t] = "done"]
              /\ response' = [response EXCEPT ![t] =
                                 [status |-> status, root |-> _split(url[t])[1]]]
              /\ pathHop' = [pathHop EXCEPT ![t] = FALSE]
              /\ UNCHANGED << url, exc, hops, handling >>
         ELSE \E location \in locations :
              /\ hops' = [hops EXCEPT ![t] = TRUE]
              /\ IF IsPathOnly(location)
                 THEN /\ url' = [url EXCEPT ![t] =
                                    rewrite(root[t], url[t], location)]
                      /\ pc' = pc
                      /\ pathHop' = [pathHop EXCEPT ![t] = TRUE]
                      /\ handling' = handling
                 ELSE /\ url' = [url EXCEPT ![t] = location]
                      /\ pc' = [pc EXCEPT ![t] = "redir"]
                      /\ pathHop' = [pathHop EXCEPT ![t] = FALSE]
                      /\ handling' = [handling EXCEPT ![t] = Answer(t, status)]
              /\ UNCHANGED << response, exc >>
    /\ UNCHANGED << poolVars, instVars, op, startEmpty, drawn, fatal, pipeVars >>
    /\ UNCHANGED dec

\* an exchange with hosts that redirect to any of Locations
Send(t) == Exchange(t, Locations)

\* an exchange with hosts that redirect to the album page only
SendAlbum(t) == Exchange(t, AlbumLocations)

\* bunkr.py:117-120: absolute redirect, followed unless its root is challenged
Redirect(t) ==
    /\ pc[t] = "redir"
    /\ IF _split(url[t])[1] \notin CF_DOMAINS
       THEN /\ pc' = [pc EXCEPT ![t] = "send"]
            /\ handling' = [handling EXCEPT ![t] = NoAnswer]
       ELSE /\ pc' = [pc EXCEPT ![t] = "select"]
            /\ handling' = handling
    /\ UNCHANGED << poolVars, instVars, op, url, response, exc,
                    startEmpty, sentCF, hops, pathHop, drawn, fatal, pipeVars >>
    /\ UNCHANGED dec

\* bunkr.py:127-129: the 403 handler records the root as challenged
CfAdd(t) ==
    /\ pc[t] = "cf_add"
    /\ CF_DOMAINS' = SetAdd(CF_DOMAINS, _split(url[t])[1])
    /\ pc' = [pc EXCEPT ![t] = "remove"]
    /\ UNCHANGED << DOMAINS, instVars, op, url, response, exc,
                    startEmpty, sentCF, hops, pathHop, handling, drawn, fatal, pipeVars >>
    /\ UNCHANGED dec

\* bunkr.py:131-134: DOMAINS.remove(hostname), ValueError ignored
Remove(t) ==
    /\ pc[t] = "remove"
    /\ LET host == HostOf(_split(url[t])[1])
       IN  IF host \in Range(DOMAINS)
           THEN /\ DOMAINS' = ListRemove(DOMAINS, host)
                /\ pc' = [pc EXCEPT ![t] = "chk_empty"]
                /\ exc' = exc
           ELSE \* ValueError: pass, and the handler ends
                /\ DOMAINS' = DOMAINS
                /\ pc' = [pc EXCEPT ![t] = "select"]
                /\ exc' = [exc EXCEPT ![t] = NoExc]
    /\ UNCHANGED << CF_DOMAINS, instVars, op, url, response,
                    startEmpty, sentCF, hops, pathHop, handling, drawn, fatal, pipeVars >>
    /\ UNCHANGED dec

\* bunkr.py:135-139: after a successful removal, an empty list is fatal
ChkEmpty(t) ==
    /\ pc[t] = "chk_empty"
    /\ IF IsEmpty(DOMAINS)
       THEN /\ Raise(t, StopExtraction(AllChallenged))
            /\ fatal' = [fatal EXCEPT ![t] = TRUE]
       ELSE /\ pc' = [pc EXCEPT ![t] = "select"]
            /\ exc' = [exc EXCEPT ![t] = NoExc]
            /\ fatal' = fatal
    /\ UNCHANGED << poolVars, instVars, op, url, response,
                    startEmpty, sentCF, hops, pathHop, handling, drawn,
                    pipeVars >>
    /\ UNCHANGED dec

\* random.choice(DOMAINS) is Python code that reads the shared list three
\* times. First read: "if not len(seq)" raises IndexError on an empty list
\*                                          (bunkr.py:142, random.py choice)
Select(t) ==
    /\ pc[t] = "select"
    /\ IF Len(Candidates(DOMAINS)) = 0
       THEN Raise(t, IndexError)
       ELSE /\ pc' = [pc EXCEPT ![t] = "randbelow"]
            /\ exc' = exc
    /\ UNCHANGED << poolVars, instVars, op, url, response,
                    startEmpty, sentCF, hops, pathHop, handling, drawn, fatal,
                    pipeVars >>
    /\ UNCHANGED dec

\* random.choice, second read: self._randbelow(len(seq)) draws an index below
\* the length. For a length of 0 the outcome depends on the interpreter: the
\* loop "while r >= n" never ends (Python 3.11 and later), or the index is 0
\* (Python 3.9, 3.10)                       (bunkr.py:142, random.py choice)
Randbelow(t) ==
    /\ pc[t] = "randbelow"
    /\ IF Len(Candidates(DOMAINS)) = 0
       THEN \/ /\ pc' = [pc EXCEPT ![t] = "spin"]
               /\ drawn' = drawn
            \/ /\ pc' = [pc EXCEPT ![t] = "getitem"]
               /\ drawn' = [drawn EXCEPT ![t] = 0]
       ELSE \E i \in 0..(Len(Candidates(DOMAINS)) - 1) :
              /\ drawn' = [drawn EXCEPT ![t] = i]
              /\ pc' = [pc EXCEPT ![t] = "getitem"]
    /\ UNCHANGED << poolVars, instVars, op, url, response, exc,
                    startEmpty, sentCF, hops, pathHop, handling, fatal,
                    pipeVars >>
    /\ UNCHANGED dec

\* random.choice, third read: seq[i], an IndexError when the list no longer
\* has that index; then self.root = root = "https://" + domain and
\* url = root + path                                      (bunkr.py:142-144)
GetItem(t) ==
    /\ pc[t] = "getitem"
    /\ IF drawn[t] >= Len(Candidates(DOMAINS))
       THEN /\ Raise(t, IndexError)
            /\ UNCHANGED << root, url >>
       ELSE LET domain == Candidates(DOMAINS)[drawn[t] + 1]
            IN  /\ root' = [root EXCEPT ![t] = HttpsRoot(domain)]
                /\ url' = [url EXCEPT ![t] =
                              HttpsRoot(domain) \o _split(url[t])[2]]
                /\ pc' = [pc EXCEPT ![t] = "send"]
                /\ exc' = exc
    /\ handling' = [handling EXCEPT ![t] = NoAnswer]
    /\ drawn' = [drawn EXCEPT ![t] = 0]
    /\ UNCHANGED << poolVars, offset, op, response,
                    startEmpty, sentCF, hops, pathHop, fatal, pipeVars >>
    /\ UNCHANGED dec

\* the direct caller takes the result
Return(t) ==
    /\ op[t] = "request"
    /\ pc[t] \in { "done", "raised" }
    /\ op' = [op EXCEPT ![t] = "none"]
    /\ fatal' = [fatal EXCEPT ![t] = FALSE]
    /\ Leave(t)
    /\ UNCHANGED << poolVars, instVars, pipeVars >>
    /\ UNCHANGED dec

\* one step of thread t inside request()
RouterStep(t) ==
    \/ Send(t)
    \/ Redirect(t)
    \/ CfAdd(t)
    \/ Remove(t)
    \/ ChkEmpty(t)
    \/ Select(t)
    \/ Randbelow(t)
    \/ GetItem(t)

\* ---------------------------------------------------------------- pipelines
\* an item block of the album page: what text.extr(item, ' href="', '"') finds
\* in it ("" when the block has no link)
ItemBlocks == { [href |-> ""], [href |-> "/a/ID"] }
\* the album pages the host serves: up to MaxItems item blocks
AlbumPages == UNION { [1..n -> ItemBlocks] : n \in 0..MaxItems }
\* the URLs the resolution API's tokens decode to
FileUrls == { HttpsRoot(CdnHost) \o "/a/ID" }
\* what the resolution API answers with: a token that decodes, a token that
\* does not (or no "url" / "timestamp" key), a body that is not JSON
ApiBodies == { "token", "bad token", "not JSON" }

Min(a, b) == IF a < b THEN a ELSE b

\* util.advance(items, num): the iterator with its first num items consumed
advance(list, num) == Min(num, Len(list))

\* _extract_files without the offset
firstItemNoOffset(list, off) == 0

\* "if self.offset: items = util.advance(items, self.offset)": the number of
\* leading items the generator passes over            (bunkr.py:164-165)
firstItem(list, off) == IF off # 0 THEN advance(list, off) ELSE 0

\* "except exception.StopExtraction: raise"                 (bunkr.py:180-181)
AlbumReraises(e) == e.type = "StopExtraction"

\* a handler that lets StopExtraction through, as _extract_files does
MediaCatchesButStop(e) == e.type \in { "HttpError", "IndexError", "ValueError" }

\* "except Exception as exc": every exception of the model is an Exception
\*                                                          (bunkr.py:254)
MediaCatches(e) ==
    e.type \in { "HttpError", "StopExtraction", "IndexError", "ValueError" }

ResetPipe(t) ==
    /\ items' = [items EXCEPT ![t] = << >>]
    /\ idx' = [idx EXCEPT ![t] = 0]
    /\ attempted' = [attempted EXCEPT ![t] = << >>]
    /\ yielded' = [yielded EXCEPT ![t] = << >>]
    /\ meta' = [meta EXCEPT ![t] = EmptyDict]
    /\ pexc' = [pexc EXCEPT ![t] = NoExc]
    /\ fatal' = [fatal EXCEPT ![t] = FALSE]

\* BunkrAlbumExtractor.fetch_album up to its request         (bunkr.py:146-148)
AlbumStart(t) ==
    /\ op[t] = "none"
    /\ op' = [op EXCEPT ![t] = "album"]
    /\ ppc' = [ppc EXCEPT ![t] = "a_page"]
    /\ ResetPipe(t)
    /\ Enter(t, root[t] \o "/a/ID")
    /\ UNCHANGED << poolVars, instVars >>
    /\ UNCHANGED dec

\* fetch_album after its request: the item blocks and the metadata
\*                                                          (bunkr.py:148-161)
AlbumPage(t) ==
    /\ ppc[t] = "a_page"
    /\ pc[t] \in { "done", "raised" }
    /\ IF pc[t] = "raised"
       THEN /\ ppc' = [ppc EXCEPT ![t] = "p_raised"]
            /\ pexc' = [pexc EXCEPT ![t] = exc[t]]
            /\ UNCHANGED << items, meta >>
       ELSE \E page \in AlbumPages :
            /\ items' = [items EXCEPT ![t] = page]
            /\ meta' = [meta EXCEPT ![t] = [count |-> Len(page)]]
            /\ ppc' = [ppc EXCEPT ![t] = "gen_start"]
            /\ pexc' = pexc
    /\ Leave(t)
    /\ UNCHANGED << poolVars, instVars, op, fatal, idx, attempted, yielded >>
    /\ UNCHANGED dec

\* _extract_files: from the consumer's next() to the request of _extract_file,
\* or to the end of the items                       (bunkr.py:164-172, 182-187)
NextItem(t) ==
    /\ ppc[t] \in { "gen_start", "gen" }
    /\ LET passed == IF ppc[t] = "gen_start"
                     THEN firstItem(items[t], offset[t])
                     ELSE idx[t]
       IN  IF passed = Len(items[t])
           THEN /\ ppc' = [ppc EXCEPT ![t] = "p_done"]
                /\ idx' = [idx EXCEPT ![t] = passed]
                /\ UNCHANGED << attempted, callVars >>
           ELSE LET href == items[t][passed + 1].href
                IN  /\ idx' = [idx EXCEPT ![t] = passed + 1]
                    /\ IF href = ""
                       THEN \* url[0] raises IndexError: logged, next item
                            /\ ppc' = [ppc EXCEPT ![t] = "gen"]
                            /\ UNCHANGED << attempted, callVars >>
                       ELSE /\ attempted' = [attempted EXCEPT ![t] =
                                                Append(@, passed + 1)]
                            /\ ppc' = [ppc EXCEPT ![t] = "f_page"]
                            /\ Enter(t, IF IsPathOnly(href)
                                        THEN root[t] \o href ELSE href)
    /\ UNCHANGED << poolVars, instVars, op, fatal, items, yielded, meta, pexc >>
    /\ UNCHANGED dec

\* an exception leaves _extract_file: the handler of the pipeline that called it
\*                                                 (bunkr.py:180-184, 254-256)
FileFails(t, e) ==
    IF op[t] = "album"
    THEN IF AlbumReraises(e)
         THEN /\ ppc' = [ppc EXCEPT ![t] = "p_raised"]
              /\ pexc' = [pexc EXCEPT ![t] = e]
              /\ UNCHANGED << yielded, meta >>
         ELSE /\ ppc' = [ppc EXCEPT ![t] = "gen"]
              /\ UNCHANGED << pexc, yielded, meta >>
    ELSE IF MediaCatches(e)
         THEN /\ ppc' = [ppc EXCEPT ![t] = "p_done"]
              /\ yielded' = [yielded EXCEPT ![t] = << >>]
              /\ meta' = [meta EXCEPT ![t] = EmptyDict]
              /\ pexc' = pexc
         ELSE /\ ppc' = [ppc EXCEPT ![t] = "p_raised"]
              /\ pexc' = [pexc EXCEPT ![t] = e]
              /\ UNCHANGED << yielded, meta >>

\* _extract_file after the page request: the data-id, then the API request
\*                                                          (bunkr.py:187-201)
FilePage(t) ==
    /\ ppc[t] = "f_page"
    /\ pc[t] \in { "done", "raised" }
    /\ IF pc[t] = "raised"
       THEN FileFails(t, exc[t]) /\ Leave(t)
       ELSE \E data_id \in BOOLEAN :
              IF ~data_id
              THEN FileFails(t, StopExtraction("Missing data-id")) /\ Leave(t)
              ELSE /\ ppc' = [ppc EXCEPT ![t] = "f_api"]
                   /\ Enter(t, referer \o "/api/vs")
                   /\ UNCHANGED << yielded, meta, pexc >>
    /\ UNCHANGED << poolVars, instVars, op, fatal, items, idx, attempted >>
    /\ UNCHANGED dec

\* _extract_file after the API request: the token, then the HEAD request
\*                                                          (bunkr.py:202-211)
FileApi(t) ==
    /\ ppc[t] = "f_api"
    /\ pc[t] \in { "done", "raised" }
    /\ IF pc[t] = "raised"
       THEN FileFails(t, exc[t]) /\ Leave(t)
       ELSE \E body \in ApiBodies :
              IF body = "not JSON"
              THEN FileFails(t, ValueError) /\ Leave(t)
              ELSE IF body = "bad token"
              THEN /\ FileFails(t, StopExtraction("URL decryption failed"))
                   /\ Leave(t)
              ELSE \E file_url \in FileUrls :
                   /\ ppc' = [ppc EXCEPT ![t] = "f_head"]
                   /\ Enter(t, file_url)
                   /\ UNCHANGED << yielded, meta, pexc >>
    /\ UNCHANGED << poolVars, instVars, op, fatal, items, idx, attempted >>
    /\ UNCHANGED dec

\* _extract_file after the HEAD request: the descriptor is returned whatever
\* the status of the probe, and the caller yields it (album, unless the text
\* fields of the item block are missing: info[-3] raises IndexError) or
\* returns it (media)                     (bunkr.py:211-230, 173-184, 258-264)
FileHead(t) ==
    /\ ppc[t] = "f_head"
    /\ pc[t] \in { "done", "raised" }
    /\ IF pc[t] = "raised"
       THEN FileFails(t, exc[t])
       ELSE IF op[t] = "album"
       THEN \E info \in BOOLEAN :
              IF info
              THEN /\ yielded' = [yielded EXCEPT ![t] = Append(@, idx[t])]
                   /\ ppc' = [ppc EXCEPT ![t] = "gen"]
                   /\ UNCHANGED << meta, pexc >>
              ELSE FileFails(t, IndexError)
       ELSE /\ yielded' = [yielded EXCEPT ![t] = << 1 >>]
            /\ meta' = [meta EXCEPT ![t] = [count |-> 1]]
            /\ ppc' = [ppc EXCEPT ![t] = "p_done"]
            /\ pexc' = pexc
    /\ Leave(t)
    /\ UNCHANGED << poolVars, instVars, op, fatal, items, idx, attempted >>
    /\ UNCHANGED dec

\* BunkrMediaExtractor.fetch_album up to the request of _extract_file
\*                                                     (bunkr.py:251-253, 187)
MediaStart(t) ==
    /\ op[t] = "none"
    /\ op' = [op EXCEPT ![t] = "media"]
    /\ ppc' = [ppc EXCEPT ![t] = "f_page"]
    /\ ResetPipe(t)
    /\ Enter(t, root[t] \o "/a/ID")
    /\ UNCHANGED << poolVars, instVars >>
    /\ UNCHANGED dec

\* the caller of the pipeline has taken its result or its exception
PipelineEnd(t) ==
    /\ ppc[t] \in { "p_done", "p_raised" }
    /\ op' = [op EXCEPT ![t] = "none"]
    /\ ppc' = [ppc EXCEPT ![t] = "none"]
    /\ ResetPipe(t)
    /\ UNCHANGED << poolVars, instVars, callVars >>
    /\ UNCHANGED dec

\* -------------------------------------------------------- specifications
\* one extractor thread making request() calls, one after the other
Next ==
    \/ NewInstance(1)
    \/ StartCall(1)
    \/ Send(1)
    \/ Redirect(1)
    \/ CfAdd(1)
    \/ Remove(1)
    \/ ChkEmpty(1)
    \/ Select(1)
    \/ Randbelow(1)
    \/ GetItem(1)
    \/ Return(1)

Spec == Init /\ [][Next]_vars

\* the same, with the call in progress always taking its next step
FairSpec == Spec /\ WF_vars(RouterStep(1))

\* request() calls of all threads for their album page, interleaved statement
\* by statement, with hosts that redirect to the album page only
NextConc ==
    \E t \in Threads :
        \/ RequestAlbumPage(t)
        \/ SendAlbum(t)
        \/ Redirect(t)
        \/ CfAdd(t)
        \/ Remove(t)
        \/ ChkEmpty(t)
        \/ Select(t)
        \/ Randbelow(t)
        \/ GetItem(t)
        \/ Return(t)

SpecConc == Init /\ [][NextConc]_vars

\* one extractor thread running album and media pipelines
NextPipe ==
    \/ NewInstance(1)
    \/ skip(1)
    \/ AlbumStart(1)
    \/ MediaStart(1)
    \/ Send(1)
    \/ Redirect(1)
    \/ CfAdd(1)
    \/ Remove(1)
    \/ ChkEmpty(1)
    \/ Select(1)
    \/ Randbelow(1)
    \/ GetItem(1)
    \/ AlbumPage(1)
    \/ NextItem(1)
    \/ FilePage(1)
    \/ FileApi(1)
    \/ FileHead(1)
    \/ PipelineEnd(1)

SpecPipe == Init /\ [][NextPipe]_vars

\* decrypt_url, applied to the tokens of InitDecode
NextDecode == DecryptUrl
SpecDecode == InitDecode /\ [][NextDecode]_vars

\* ------------------------------------------------------------------ claims
InCall(t) ==
    pc[t] \in { "send", "redir", "cf_add", "remove", "chk_empty", "select",
                "randbelow", "getitem", "spin" }
Ended(t) == pc[t] \in { "done", "raised" }
Fatal == StopExtraction(AllChallenged)

\* C1: every call to request terminates, by returning a response or by
\* raising an error, whatever the remote hosts answer.
C1_RequestTerminates == InCall(1) ~> Ended(1)

\* C2: a call to request that begins with DOMAINS empty sends no request to a
\* root in CF_DOMAINS and ends by raising the all-domains-challenged error.
C2_EmptyPoolIsFatal ==
    \A t \in Threads :
        (op[t] = "request" /\ startEmpty[t]) =>
            /\ ~sentCF[t]
            /\ pc[t] # "done"
            /\ (pc[t] = "raised" => exc[t] = Fatal)

\* C3: a response that request returns comes from a root that is not in
\* CF_DOMAINS when it is returned.
C3_ResponseNotFromChallenged ==
    \A t \in Threads :
        pc[t] = "done" => response[t].root \notin CF_DOMAINS

\* C4: a response that request returns has a status below 300, also after a
\* chain of redirects.
C4_NoRedirectReturned ==
    \A t \in Threads :
        pc[t] = "done" => response[t].status < 300

\* a call that received at least one redirect has returned a response
C4_Witness == pc[1] = "done" /\ hops[1] /\ response[1].status = 200

\* the album generator stopped with an exception while working on an item
ItemRaised(t) ==
    op[t] = "album" /\ ppc[t] = "p_raised" /\ attempted[t] # << >>

\* C5: in the album pipeline a failure of one item, other than the
\* all-domains-challenged error, never ends the generator: the item is skipped
\* and the later items are attempted.
C5_ItemFailureContained ==
    \A t \in Threads : ItemRaised(t) => pexc[t] = Fatal

\* C6: once request has raised the all-domains-challenged error in a pipeline
\* run, the pipeline (album or media) ends by raising that error.
C6_FatalSurfaces ==
    \A t \in Threads :
        (fatal[t] /\ ppc[t] \in { "p_done", "p_raised" }) =>
            (ppc[t] = "p_raised" /\ pexc[t] = Fatal)

\* C7: BunkrMediaExtractor.fetch_album never raises; it returns the empty
\* sequence with empty metadata, or exactly one descriptor with count 1.
C7_MediaNeverRaises ==
    \A t \in Threads :
        op[t] = "media" =>
            /\ ppc[t] # "p_raised"
            /\ pexc[t] = NoExc
            /\ ppc[t] = "p_done" =>
                 \/ yielded[t] = << >> /\ meta[t] = EmptyDict
                 \/ yielded[t] = << 1 >> /\ meta[t] = [count |-> 1]

\* the media pipeline has returned its empty result after request raised
C7_Witness ==
    /\ op[1] = "media" /\ ppc[1] = "p_done"
    /\ yielded[1] = << >> /\ meta[1] = EmptyDict /\ fatal[1]

\* the album generator of t is exhausted and the offset is below the item count
Consumed(t) ==
    op[t] = "album" /\ ppc[t] = "p_done" /\ offset[t] < Len(items[t])

\* the indices k+1 .. n in order
IndicesAfter(n, k) == [i \in 1..(n - k) |-> k + i]

\* C8 as stated: with N item blocks and offset k < N, consuming the sequence
\* calls _extract_file exactly for the items k+1 .. N, in page order, and the
\* metadata has count = N.
C8_AttemptsAllAfterOffset ==
    \A t \in Threads :
        Consumed(t) =>
            /\ attempted[t] = IndicesAfter(Len(items[t]), offset[t])
            /\ meta[t] = [count |-> Len(items[t])]

\* C8 amended: ... exactly for those of the items k+1 .. N whose block has a
\* link, in page order, and the metadata has count = N.
C8_AttemptsLinkedAfterOffset ==
    \A t \in Threads :
        Consumed(t) =>
            /\ attempted[t] =
                 SelectSeq(IndicesAfter(Len(items[t]), offset[t]),
                           LAMBDA i : items[t][i].href # "")
            /\ meta[t] = [count |-> Len(items[t])]

\* an album with a positive offset was consumed and an item after the offset
\* was resolved
C8_Witness ==
    /\ Consumed(1) /\ offset[1] > 0
    /\ attempted[1] # << >> /\ yielded[1] # << >>

\* C9: no hostname is in DOMAINS while a root of that hostname is in
\* CF_DOMAINS, at any step.
C9_ActiveChallengedDisjoint ==
    \A i \in DOMAIN DOMAINS :
        \A r \in CF_DOMAINS : HostOf(r) # DOMAINS[i]

\* C10: with calls interleaved statement by statement, no call draws as its
\* fallback a domain whose root is already in CF_DOMAINS.
C10_FallbackNeverChallenged ==
    [][ \A t \in Threads :
            (pc[t] = "getitem" /\ pc'[t] = "send") =>
                root'[t] \notin CF_DOMAINS ]_vars

\* C11 as stated: the token of "HELLO" made in hour h decrypts to "HELLO" at
\* timestamp h*3600 and to something other than "HELLO" at (h+1)*3600.
C11_HelloDiffersNextHour ==
    (dec.pc = "done" /\ dec.plain = HELLO) =>
        /\ dec.timestamp = dec.hour * 3600 => dec.out = Returned(HELLO)
        /\ dec.timestamp = (dec.hour + 1) * 3600 => dec.out # Returned(HELLO)

\* C11 amended: the token of "HELLO" made in hour h decrypts to "HELLO" at
\* h*3600 and at (h+1)*3600 alike (at every timestamp: its five bytes meet
\* only the key bytes "SECRE"); the token of a text with at least as many
\* bytes as the key SECRET_KEY_<h> does not decrypt to that text at
\* (h+1)*3600.
C11_HelloSameLongDiffers ==
    dec.pc = "done" =>
        /\ dec.plain = HELLO => dec.out = Returned(HELLO)
        /\ ( /\ Len(encode(dec.plain)) >= Len(TokenKey(dec.hour))
             /\ dec.timestamp = (dec.hour + 1) * 3600 )
           => dec.out # Returned(dec.plain)

C11_Witness ==
    /\ dec.pc = "done"
    /\ dec.plain = HELLO
    /\ dec.timestamp = (dec.hour + 1) * 3600
    /\ dec.out = Returned(HELLO)

\* C12: decrypt_url applied to the token made of a text with the repeating
\* key SECRET_KEY_<floor(timestamp/3600)>, and to that timestamp, returns the
\* text, also when the text is longer than the key.
C12_RoundTrip ==
    (dec.pc = "done" /\ dec.timestamp \div 3600 = dec.hour)
        => dec.out = Returned(dec.plain)

C12_Witness ==
    /\ dec.pc = "done"
    /\ dec.timestamp \div 3600 = dec.hour
    /\ dec.timestamp % 3600 # 0
    /\ Len(encode(dec.plain)) > Len(TokenKey(dec.hour))
    /\ dec.out = Returned(dec.plain)

\* C13: an HTTP error whose status is not 403 ends the call by raising that
\* error: the step that receives it leaves DOMAINS, CF_DOMAINS and the roots
\* unchanged, and the call sends no further request.
C13_OtherErrorsPropagate ==
    [][ \A t \in Threads :
            /\ ( /\ pc[t] = "send"
                 /\ exc'[t].type = "HttpError"
                 /\ exc'[t].status # 403 )
               => /\ pc'[t] = "raised"
                  /\ DOMAINS' = DOMAINS
                  /\ CF_DOMAINS' = CF_DOMAINS
                  /\ root' = root
            /\ (pc[t] = "raised" /\ exc[t].type = "HttpError")
               => pc'[t] \in { "raised", "idle" } ]_vars

C13_Witness ==
    /\ pc[1] = "raised"
    /\ exc[1] = HttpError(404)
    /\ hops[1]
    /\ CF_DOMAINS # {}

\* C14: the handler of a 403 from a root that is in CF_DOMAINS already changes
\* neither DOMAINS nor CF_DOMAINS.
C14_RemarkIdempotent ==
    [][ \A t \in Threads :
            (pc[t] \in { "cf_add", "remove", "chk_empty" } /\ handling[t].remark)
                => (DOMAINS' = DOMAINS /\ CF_DOMAINS' = CF_DOMAINS) ]_vars

C14_Witness ==
    /\ pc[1] = "select"
    /\ handling[1].remark
    /\ HostOf(handling[1].root) \in PoolHosts

\* C15: after a path-only redirect the next request goes to the root the
\* redirected request was sent to.
C15_PathOnlySameDomain ==
    [][ \A t \in Threads :
            (pc[t] = "send" /\ pathHop'[t])
                => _split(url'[t])[1] = _split(url[t])[1] ]_vars

\* C16: a path-only redirect is re-requested at the extractor's current root
\* plus the Location path, and that step selects no fallback: the roots,
\* DOMAINS and CF_DOMAINS are unchanged.
C16_PathOnlyNoFallback ==
    [][ \A t \in Threads :
            (pc[t] = "send" /\ pathHop'[t])
                => /\ \E location \in AllPaths : url'[t] = root[t] \o location
                   /\ pc'[t] = "send"
                   /\ root' = root
                   /\ DOMAINS' = DOMAINS
                   /\ CF_DOMAINS' = CF_DOMAINS ]_vars

C16_Witness ==
    /\ pc[1] = "send"
    /\ pathHop[1]
    /\ root[1] # ClassRoot
    /\ url[1] = root[1] \o "/api/vs"

\* C17: when the 403 handler removes the last domain of DOMAINS, the call
\* raises the all-domains-challenged StopExtraction next, without selecting a
\* fallback (the root is unchanged) and without sending another request.
C17_LastDomainIsFatal ==
    [][ \A t \in Threads :
            /\ (pc[t] = "remove" /\ DOMAINS # << >> /\ DOMAINS' = << >>)
               => pc'[t] = "chk_empty"
            /\ (pc[t] = "chk_empty" /\ DOMAINS = << >>)
               => /\ pc'[t] = "raised"
                  /\ exc'[t] = Fatal
                  /\ root' = root
                  /\ url' = url
            /\ (pc[t] = "raised" /\ exc[t] = Fatal)
               => pc'[t] \in { "raised", "idle" } ]_vars

C17_Witness ==
    /\ pc[1] = "raised"
    /\ exc[1] = Fatal
    /\ ~startEmpty[1]
    /\ DOMAINS = << >>

\* C18: the domain a fallback selection draws is in DOMAINS, its root is not
\* in CF_DOMAINS, it is no legacy domain, and it is not the root whose 403 or
\* challenge redirect led to the selection.
C18_FallbackIsAnotherActive ==
    [][ \A t \in Threads :
            (pc[t] = "getitem" /\ pc'[t] = "send")
                => /\ HostOf(root'[t]) \in Range(DOMAINS)
                   /\ root'[t] \notin CF_DOMAINS
                   /\ HostOf(root'[t]) \notin LEGACY_DOMAINS
                   /\ root'[t] # handling[t].root ]_vars

\* C19: DOMAINS only shrinks and CF_DOMAINS only grows, whatever instances are
\* built and whatever calls are made.
C19_PoolMonotone ==
    [][ /\ Range(DOMAINS') \subseteq Range(DOMAINS)
        /\ Len(DOMAINS') <= Len(DOMAINS)
        /\ CF_DOMAINS \subseteq CF_DOMAINS' ]_vars

C19_Witness ==
    /\ DOMAINS = << >>
    /\ Cardinality(CF_DOMAINS) > Len(InitialDomains)
    /\ op[1] = "none"

\* C20: every root in CF_DOMAINS is the root of a domain of the initial
\* DOMAINS list.
C20_ChallengedWereActive ==
    \A r \in CF_DOMAINS : HostOf(r) \in PoolHosts

====
